---- MODULE Spec2Model ----
(***************************************************************************)
(* Scene graph of manim's Scene (src/manim/scene/scene.py): the active     *)
(* list `mobjects`, the list `foreground_mobjects`, the child lists of the *)
(* mobjects, and the operations add / remove / replace / restructure /     *)
(* bring_to_front / bring_to_back / clear and the moving/static split.     *)
(***************************************************************************)
EXTENDS Integers, Sequences, FiniteSets, TLC

\* ------------------------------------------------------------------------
\* Bounds of the model
\* ------------------------------------------------------------------------

\* longest argument list handed to a variadic scene operation
MaxArgs == 2

\* longest active list the model lets the scene build
MaxActive == 3

\* most replace calls that succeed in one run
MaxReplace == 1

\* longest foreground list the model lets add_foreground_mobjects build
MaxForeground == 1

\* most requests the model lets the file watcher put on the queue
MaxQueue == 2

\* ------------------------------------------------------------------------
\* The mobjects of the model: H = Group(G), G = Group(m1, m2, m3), m4 free.
\* ------------------------------------------------------------------------

None == "None"

Leaves == {"m1", "m2", "m3", "m4"}

Groups == {"G", "H"}

Mob == Leaves \cup Groups

\* child lists as the mobjects are constructed
InitSubmobjects ==
  [m \in Mob |-> CASE m = "H" -> <<"G">>
                   [] m = "G" -> <<"m1", "m2", "m3">>
                   [] OTHER -> <<>>]

\* mobjects that occur in argument lists of more than one element: a leaf of
\* G and the group G itself
MultiArgMob == {"m1", "G"}

\* argument lists of the variadic operations: every single mobject, and every
\* list of 2..MaxArgs mobjects of MultiArgMob (repetitions included)
ArgLists ==
  {<<m>> : m \in Mob} \cup UNION {[1..n -> MultiArgMob] : n \in 2..MaxArgs}

\* the mobjects put into the foreground
ForegroundMob == {"m4", "G"}

\* argument lists of add_foreground_mobjects and remove_foreground_mobjects
ForegroundArgLists == {<<m>> : m \in ForegroundMob} \cup {<<"m4", "m4">>}

\* the mobjects handed to replace as new_mobject
NewMob == {"m4", None}

\* the mobjects handed to replace as old_mobject: a leaf two levels down, a
\* group one level down, and no mobject
OldMob == {"m1", "G", None}

\* the mobjects of the scene that replace searches: those of Mob and
\* K = Group(m1), a second group that holds the leaf m1
SearchMob == Mob \cup {"K"}

SearchSubmobjects ==
  [m \in SearchMob |-> IF m = "K" THEN <<"m1">> ELSE InitSubmobjects[m]]

\* the argument lists of add on that scene: every single mobject, and the
\* two groups that hold m1 at different depths, in either order
SearchArgLists == {<<m>> : m \in SearchMob} \cup {<<"H", "K">>, <<"K", "H">>}

\* the sets of mobjects that carry an updater
UpdaterSets == {{}, {"m2"}, {"m4"}}

\* the z_index assignments: the default, a leaf of G below everything, a
\* leaf of G above everything
ZIndexMaps ==
  {[m \in Mob |-> 0],
   [m \in Mob |-> IF m = "m1" THEN -1 ELSE 0],
   [m \in Mob |-> IF m = "m3" THEN 1 ELSE 0]}

\* the animations of a batch: a target mobject and the introducer flag
Animation(m, introducer) == [mobject |-> m, is_introducer |-> introducer]

\* the batches handed to add_mobjects_from_animations and to
\* get_moving_and_static_mobjects: the empty one, one animation of a leaf of G
\* or of G, introducer or not, an introducer followed by another animation,
\* and an animation without a mobject
AnimationBatches ==
  {<<>>}
  \cup {<<Animation(m, introducer)>> : m \in {"m2", "G"}, introducer \in BOOLEAN}
  \cup {<<Animation("m4", TRUE), Animation("m1", FALSE)>>,
        <<Animation(None, FALSE)>>}

\* the mobjects added to the scene that is rendered
RenderMob == {"m1", "m2", "G"}

\* the sequences of mobjects handed to update_frame and to
\* save_static_frame_data: none, one leaf, two leaves, a group
FrameLists == {<<>>, <<"m1">>, <<"m3">>, <<"m1", "m2">>, <<"G">>}

\* WebRenderer.static_image when it is None; a frame is the sequence of the
\* mobjects painted on the blank background, in the order they were painted
NoImage == [present |-> FALSE, image |-> <<>>]

\* how construct can end: by returning, or with one of the two exceptions
\* render catches
Signals == {"returned", "EndSceneEarlyException", "RerunSceneException"}

VARIABLES
  mobjects,             \* Scene.mobjects: the active top-level list
  foreground_mobjects,  \* Scene.foreground_mobjects
  moving_mobjects,      \* Scene.moving_mobjects
  submobjects,          \* Mobject.submobjects of every mobject
  updaters,             \* the mobjects that carry at least one updater
  z_index,              \* Mobject.z_index of every mobject
  num_replaced,         \* how many replace calls have succeeded
  static_image,         \* WebRenderer.static_image: the cached static frame
  pixel_array,          \* Camera.pixel_array: the frame being composed
  pc,                   \* where Scene.render stands
  hooks,                \* the methods render has called so far, in order
  outcome,              \* how construct ended: returned, or the exception raised
  at_signal,            \* the two scene lists as construct left them
  queue,                \* Scene.queue, to which RerunSceneHandler puts its requests
  pending,              \* the mobjects an add in progress has yet to append
  restructuring,        \* the call of restructure_mobjects in progress
  last_op               \* the call that produced this state, and what it returned

vars ==
  <<mobjects, foreground_mobjects, moving_mobjects, submobjects, updaters, z_index,
    num_replaced, static_image, pixel_array, pc, hooks, outcome, at_signal,
    queue, pending, restructuring, last_op>>

\* what no scene operation writes: the attributes of the mobjects
attrs == <<updaters, z_index>>

\* what no scene operation writes either: the state of the renderer
renderer == <<static_image, pixel_array>>

\* what only Scene.render writes
render_state == <<pc, hooks, outcome, at_signal>>

\* what the scene operations taken as one step leave alone: the queue of
\* the file watcher and the add in progress
watch_state == <<queue, pending, restructuring>>

\* ------------------------------------------------------------------------
\* Sequence helpers
\* ------------------------------------------------------------------------

Range(s) == {s[i] : i \in 1..Len(s)}

Count(x, s) == Cardinality({i \in 1..Len(s) : s[i] = x})

IsSuffix(s, t) ==
  Len(s) <= Len(t) /\ SubSeq(t, Len(t) - Len(s) + 1, Len(t)) = s

\* s with its k-th element taken out
WithoutIndex(s, k) == SubSeq(s, 1, k - 1) \o SubSeq(s, k + 1, Len(s))

\* s can be obtained from t by deleting elements
RECURSIVE IsSubsequence(_, _)
IsSubsequence(s, t) ==
  IF s = <<>> THEN TRUE
  ELSE IF t = <<>> THEN FALSE
  ELSE IF Head(s) = Head(t) THEN IsSubsequence(Tail(s), Tail(t))
  ELSE IsSubsequence(s, Tail(t))

RECURSIVE Flatten(_)
Flatten(ss) == IF ss = <<>> THEN <<>> ELSE Head(ss) \o Flatten(Tail(ss))

\* manim.utils.iterables.remove_list_redundancies: keeps each element's last
\* occurrence, order preserved
RECURSIVE remove_list_redundancies(_)
remove_list_redundancies(s) ==
  IF s = <<>> THEN <<>>
  ELSE IF \E j \in 2..Len(s) : s[j] = s[1]
       THEN remove_list_redundancies(Tail(s))
       ELSE <<s[1]>> \o remove_list_redundancies(Tail(s))

\* manim.utils.iterables.list_update: l1 without the elements of l2, then l2
list_update(l1, l2) == SelectSeq(l1, LAMBDA e : e \notin Range(l2)) \o l2

\* manim.utils.iterables.list_difference_update: l1 without the elements of l2
list_difference_update(l1, l2) == SelectSeq(l1, LAMBDA e : e \notin Range(l2))

\* ------------------------------------------------------------------------
\* Families
\* ------------------------------------------------------------------------

\* Mobject.get_family: the mobject, then the families of its children
RECURSIVE get_family(_, _)
get_family(subs, m) ==
  remove_list_redundancies(
    <<m>> \o Flatten([i \in 1..Len(subs[m]) |-> get_family(subs, subs[m][i])]))

\* Camera.use_z_index: families are extracted in z-order
use_z_index == TRUE

\* whether a mobject has points of its own: the leaves do, the groups do not
has_points(m) == m \in Leaves

\* Mobject.family_members_with_points
family_members_with_points(subs, m) == SelectSeq(get_family(subs, m), has_points)

\* sorted(s, key = z_index): stable, ascending
RECURSIVE sorted_by_z_index(_, _)
sorted_by_z_index(s, z) ==
  IF s = <<>> THEN <<>>
  ELSE LET lowest == CHOOSE v \in {z[e] : e \in Range(s)} :
                       \A w \in {z[e] : e \in Range(s)} : v <= w
       IN SelectSeq(s, LAMBDA e : z[e] = lowest)
            \o sorted_by_z_index(SelectSeq(s, LAMBDA e : z[e] # lowest), z)

\* manim.utils.family.extract_mobject_family_members
extract_mobject_family_members(subs, z, ms, with_z_index, only_those_with_points) ==
  LET method(m) == IF only_those_with_points THEN family_members_with_points(subs, m)
                   ELSE get_family(subs, m)
      extracted == remove_list_redundancies(
                     Flatten([i \in 1..Len(ms) |-> method(ms[i])]))
  IN IF with_z_index THEN sorted_by_z_index(extracted, z) ELSE extracted

\* extract_mobject_family_members, as a set (its callers in restructure turn
\* the result into a set, so the z-order of the result does not matter there)
FamilySet(subs, ms) == UNION {Range(get_family(subs, ms[i])) : i \in 1..Len(ms)}

\* ------------------------------------------------------------------------
\* Restructuring
\* ------------------------------------------------------------------------

RECURSIVE add_safe_mobjects_from_list(_, _, _)
add_safe_mobjects_from_list(subs, list_to_examine, set_to_remove) ==
  IF list_to_examine = <<>> THEN <<>>
  ELSE LET mob == Head(list_to_examine)
           intersect == set_to_remove \cap Range(get_family(subs, mob))
           part == IF mob \in set_to_remove THEN <<>>
                   ELSE IF intersect # {}
                        THEN add_safe_mobjects_from_list(subs, subs[mob], intersect)
                        ELSE <<mob>>
       IN part \o add_safe_mobjects_from_list(subs, Tail(list_to_examine), set_to_remove)

\* a restructuring that only filters the top level and dissolves no group
get_restructured_top_level_only(subs, list, to_remove) ==
  SelectSeq(list, LAMBDA mob : mob \notin to_remove)

\* a restructuring that puts the survivors of dissolved groups after the
\* entries that are kept whole
get_restructured_survivors_last(subs, list, to_remove) ==
  LET whole(mob) ==
        mob \notin to_remove /\ to_remove \cap Range(get_family(subs, mob)) = {}
  IN SelectSeq(list, whole)
       \o add_safe_mobjects_from_list(subs, SelectSeq(list, LAMBDA mob : ~whole(mob)),
                                      to_remove)

get_restructured_mobject_list(subs, list, to_remove) ==
  add_safe_mobjects_from_list(subs, list, to_remove)

\* restructure_mobjects: the new value of the named list
restructure_mobjects(subs, list, to_remove, extract_families) ==
  get_restructured_mobject_list(subs, list,
    IF extract_families THEN FamilySet(subs, to_remove) ELSE Range(to_remove))

\* no call of restructure_mobjects is in progress
NotRestructuring ==
  [pc |-> "idle", name |-> "mobjects", set_to_remove |-> {}, arg_list |-> <<>>,
   frames |-> <<>>, new_mobjects |-> <<>>,
   before |-> [mobjects |-> <<>>, foreground_mobjects |-> <<>>,
               submobjects |-> InitSubmobjects]]

\* restructure_mobjects up to the call of add_safe_mobjects_from_list: the
\* list object of the named attribute is handed over as it is (arg_list),
\* new_mobjects is a new empty list, and the one frame(mobjects, set(to_remove))
\* is on the stack
restructure_entered(subs, active, fg, to_remove, name, extract_families) ==
  LET _list == IF name = "mobjects" THEN active ELSE fg
      set == IF extract_families THEN FamilySet(subs, to_remove) ELSE Range(to_remove)
  IN [pc |-> "examine", name |-> name, set_to_remove |-> set, arg_list |-> _list,
      frames |-> <<[list_to_examine |-> _list, set_to_remove |-> set]>>,
      new_mobjects |-> <<>>,
      before |-> [mobjects |-> active, foreground_mobjects |-> fg,
                  submobjects |-> subs]]

\* one turn of the loop of add_safe_mobjects_from_list in the innermost
\* frame: the call in progress after it.  A frame whose list is exhausted
\* returns; when the outermost one has returned,
\* get_restructured_mobject_list returns new_mobjects.
examine_turn(subs, r) ==
  LET n == Len(r.frames)
      top == r.frames[n]
      rest == SubSeq(r.frames, 1, n - 1)
      mob == Head(top.list_to_examine)
      next == [top EXCEPT !.list_to_examine = Tail(top.list_to_examine)]
      intersect == top.set_to_remove \cap Range(get_family(subs, mob))
      frames ==
        IF top.list_to_examine = <<>> THEN rest
        ELSE IF mob \notin top.set_to_remove /\ intersect # {}
             THEN rest \o <<next, [list_to_examine |-> subs[mob],
                                   set_to_remove |-> intersect]>>
             ELSE rest \o <<next>>
      appended ==
        /\ top.list_to_examine # <<>>
        /\ mob \notin top.set_to_remove
        /\ intersect = {}
  IN [r EXCEPT !.frames = frames,
               !.new_mobjects = IF appended THEN Append(@, mob) ELSE @,
               !.pc = IF frames = <<>> THEN "commit" ELSE "examine"]

\* a loop that filters in place: a mobject that is not kept is also taken
\* out of the list that was handed over
examined_in_place(subs, r) ==
  LET call == examine_turn(subs, r)
      kept == Range(call.new_mobjects)
                \cup UNION {Range(f.list_to_examine) : f \in Range(call.frames)}
  IN [call |-> [call EXCEPT !.arg_list = SelectSeq(@, LAMBDA m : m \in kept)],
      submobjects |-> subs]

\* one turn of the loop: the call in progress and the child lists after it;
\* the loop reads mob.submobjects and writes new_mobjects only
examined(subs, r) == [call |-> examine_turn(subs, r), submobjects |-> subs]

\* ------------------------------------------------------------------------
\* Operations as functions of the state
\* ------------------------------------------------------------------------

\* add without the restructuring of line 351: earlier occurrences stay
add_mobjects_no_restructure(subs, active, fg, args) == active \o args \o fg

\* add without the foreground list of line 350
add_mobjects_no_foreground(subs, active, fg, args) ==
  restructure_mobjects(subs, active, args \o fg, TRUE) \o args

\* add with the foreground list put before the arguments
add_mobjects_foreground_first(subs, active, fg, args) ==
  restructure_mobjects(subs, active, fg \o args, TRUE) \o fg \o args

\* Scene.add: the new active list.  config.renderer is RendererType.CAIRO
\* (src/manim/_config/__init__.py, ManimConfig.__init__) and is written
\* nowhere else, so the branch guarded by it is the one that runs, here and
\* in remove and get_mobject_family_members.
add_mobjects(subs, active, fg, args) ==
  LET ms == args \o fg
  IN restructure_mobjects(subs, active, ms, TRUE) \o ms

\* Scene.add: the new moving list
add_moving(subs, moving, fg, args) ==
  LET ms == args \o fg
  IN IF moving # <<>> THEN restructure_mobjects(subs, moving, ms, TRUE) \o ms
     ELSE moving

\* remove that drops matching entries and dissolves nothing
remove_from_entries_only(subs, list, args) ==
  SelectSeq(list, LAMBDA mob : mob \notin Range(args))

\* Scene.remove: the new value of either list
remove_from(subs, list, args) == restructure_mobjects(subs, list, args, FALSE)

\* bring_to_back without the remove of line 621
bring_to_back_no_remove(subs, active, args) == args \o active

\* Scene.bring_to_back: the new active list
bring_to_back_mobjects(subs, active, args) == args \o remove_from(subs, active, args)

\* the first index of list that holds m (0 when there is none)
FirstIndex(list, m) ==
  IF \E i \in 1..Len(list) : list[i] = m
  THEN CHOOSE i \in 1..Len(list) : list[i] = m /\ \A j \in 1..(i-1) : list[j] # m
  ELSE 0

\* Scene.replace.replace_in_list: the list and the child lists after the call,
\* and whether a slot was overwritten.  The first loop scans mobj_list itself;
\* the second one descends into the child list of each entry in turn and
\* stops at the first entry under which the replacement is made.
RECURSIVE replace_in_list(_, _, _, _)
RECURSIVE replace_in_children(_, _, _, _, _)

\* replace_in_list without its second loop: only mobj_list itself is scanned
replace_in_list_top_only(subs, mobj_list, old_m, new_m) ==
  LET i == FirstIndex(mobj_list, old_m)
  IN [replaced |-> i # 0,
      list |-> IF i # 0 THEN [mobj_list EXCEPT ![i] = new_m] ELSE mobj_list,
      subs |-> subs]

replace_in_list(subs, mobj_list, old_m, new_m) ==
  LET i == FirstIndex(mobj_list, old_m)
  IN IF i # 0
     THEN [replaced |-> TRUE, list |-> [mobj_list EXCEPT ![i] = new_m], subs |-> subs]
     ELSE [replaced |-> replace_in_children(subs, mobj_list, 1, old_m, new_m).replaced,
           list |-> mobj_list,
           subs |-> replace_in_children(subs, mobj_list, 1, old_m, new_m).subs]

replace_in_children(subs, mobj_list, k, old_m, new_m) ==
  IF k > Len(mobj_list) THEN [replaced |-> FALSE, subs |-> subs]
  ELSE LET mob == mobj_list[k]
           r == replace_in_list(subs, subs[mob], old_m, new_m)
       IN IF r.replaced
          THEN [replaced |-> TRUE, subs |-> [r.subs EXCEPT ![mob] = r.list]]
          ELSE replace_in_children(subs, mobj_list, k + 1, old_m, new_m)

\* replace without the short circuit of line 431: both lists are searched
replace_scene_both_lists(subs, active, fg, old_mobject, new_mobject) ==
  IF old_mobject = None \/ new_mobject = None
  THEN [result |-> "ValueError", mobjects |-> active, foreground_mobjects |-> fg,
        submobjects |-> subs]
  ELSE LET ra == replace_in_list(subs, active, old_mobject, new_mobject)
           rf == replace_in_list(ra.subs, fg, old_mobject, new_mobject)
       IN [result |-> IF ra.replaced \/ rf.replaced THEN "ok" ELSE "ValueError",
           mobjects |-> ra.list, foreground_mobjects |-> rf.list,
           submobjects |-> rf.subs]

\* Scene.replace: the scene after the call and whether it raised.  The
\* foreground list is searched only when the search of the active list (and
\* of everything below it) made no replacement.
replace_scene(subs, active, fg, old_mobject, new_mobject) ==
  IF old_mobject = None \/ new_mobject = None
  THEN [result |-> "ValueError", mobjects |-> active, foreground_mobjects |-> fg,
        submobjects |-> subs]
  ELSE LET ra == replace_in_list(subs, active, old_mobject, new_mobject)
           rf == replace_in_list(ra.subs, fg, old_mobject, new_mobject)
       IN IF ra.replaced
          THEN [result |-> "ok", mobjects |-> ra.list, foreground_mobjects |-> fg,
                submobjects |-> ra.subs]
          ELSE [result |-> IF rf.replaced THEN "ok" ELSE "ValueError",
                mobjects |-> ra.list, foreground_mobjects |-> rf.list,
                submobjects |-> rf.subs]

\* Scene.get_top_level_mobjects: the entries that are in the family of
\* exactly one entry of the active list, the families taken entry by entry
top_level_mobjects(subs, active) ==
  LET num_families(mobject) ==
        Cardinality({i \in 1..Len(active) :
                       mobject \in Range(get_family(subs, active[i]))})
  IN SelectSeq(active, LAMBDA mobject : num_families(mobject) = 1)

\* Scene.get_mobject_family_members
get_mobject_family_members(subs, z, active) ==
  extract_mobject_family_members(subs, z, active, use_z_index, FALSE)

\* a test of the mobject's own updaters alone
has_own_updaters(subs, upd, mob) == mob \in upd

\* len(mob.get_family_updaters()) > 0: mob or one of its family has an updater
has_family_updaters(subs, upd, mob) == Range(get_family(subs, mob)) \cap upd # {}

\* update_possibilities that count the animations that are no introducers
is_dynamic_non_introducers(subs, fg, upd, animations, mob) ==
  \/ \E i \in 1..Len(animations) :
       animations[i].mobject = mob /\ ~animations[i].is_introducer
  \/ has_family_updaters(subs, upd, mob)
  \/ mob \in Range(fg)

\* any(update_possibilities) of get_moving_mobjects
is_dynamic(subs, fg, upd, animations, mob) ==
  \/ \E i \in 1..Len(animations) : animations[i].mobject = mob
  \/ has_family_updaters(subs, upd, mob)
  \/ mob \in Range(fg)

\* the index of the first dynamic member of ms (0 when there is none)
FirstDynamic(subs, fg, upd, animations, ms) ==
  LET dyn == {i \in 1..Len(ms) : is_dynamic(subs, fg, upd, animations, ms[i])}
  IN IF dyn = {} THEN 0 ELSE CHOOSE i \in dyn : \A j \in dyn : i <= j

\* get_moving_mobjects that returns the dynamic members alone, not the tail
get_moving_mobjects_dynamic_only(subs, z, active, fg, upd, animations) ==
  SelectSeq(get_mobject_family_members(subs, z, active),
            LAMBDA mob : is_dynamic(subs, fg, upd, animations, mob))

\* Scene.get_moving_mobjects
get_moving_mobjects(subs, z, active, fg, upd, animations) ==
  LET ms == get_mobject_family_members(subs, z, active)
      i == FirstDynamic(subs, fg, upd, animations, ms)
  IN IF i = 0 THEN <<>> ELSE SubSeq(ms, i, Len(ms))

\* Scene.get_moving_and_static_mobjects
get_moving_and_static_mobjects(subs, z, active, fg, upd, animations) ==
  LET all_mobjects == list_update(active, fg)
      all_mobject_families ==
        extract_mobject_family_members(subs, z, all_mobjects, use_z_index, TRUE)
      moving == get_moving_mobjects(subs, z, active, fg, upd, animations)
      all_moving_mobject_families ==
        extract_mobject_family_members(subs, z, moving, use_z_index, FALSE)
      static_mobjects ==
        list_difference_update(all_mobject_families, all_moving_mobject_families)
  IN [moving |-> all_moving_mobject_families, static |-> static_mobjects]

\* add_mobjects_from_animations without the test of is_introducer: every
\* animation's mobject that is not in the scene is added
RECURSIVE add_from_animations_all(_, _, _, _, _, _)
add_from_animations_all(subs, active, moving, fg, curr_mobjects, animations) ==
  IF animations = <<>> THEN [mobjects |-> active, moving_mobjects |-> moving]
  ELSE LET mob == Head(animations).mobject
       IN IF mob # None /\ mob \notin Range(curr_mobjects)
          THEN add_from_animations_all(
                 subs, add_mobjects(subs, active, fg, <<mob>>),
                 add_moving(subs, moving, fg, <<mob>>), fg,
                 curr_mobjects \o get_family(subs, mob), Tail(animations))
          ELSE add_from_animations_all(subs, active, moving, fg, curr_mobjects,
                                       Tail(animations))

\* Scene.add_mobjects_from_animations, from the second statement on: the loop
\* over the animations, with curr_mobjects as it stands before each of them
RECURSIVE add_from_animations(_, _, _, _, _, _)
add_from_animations(subs, active, moving, fg, curr_mobjects, animations) ==
  IF animations = <<>> THEN [mobjects |-> active, moving_mobjects |-> moving]
  ELSE LET animation == Head(animations)
           mob == animation.mobject
       IN IF animation.is_introducer
          THEN add_from_animations(subs, active, moving, fg, curr_mobjects,
                                   Tail(animations))
          ELSE IF mob # None /\ mob \notin Range(curr_mobjects)
          THEN add_from_animations(
                 subs, add_mobjects(subs, active, fg, <<mob>>),
                 add_moving(subs, moving, fg, <<mob>>), fg,
                 curr_mobjects \o get_family(subs, mob), Tail(animations))
          ELSE add_from_animations(subs, active, moving, fg, curr_mobjects,
                                   Tail(animations))

\* Camera.capture_mobjects(mobjects, include_submobjects = True): paints the
\* family members with points of the mobjects over the pixels, in order
capture_mobjects(subs, z, pixels, ms) ==
  pixels \o extract_mobject_family_members(subs, z, ms, use_z_index, TRUE)

\* WebRenderer.update_frame: the pixel array it leaves.  An empty (or absent)
\* list of mobjects stands for the whole scene.
update_frame_pixels(subs, z, active, fg, static, ms) ==
  LET to_paint == IF ms = <<>> THEN list_update(active, fg) ELSE ms
      background == IF static.present THEN static.image ELSE <<>>
  IN capture_mobjects(subs, z, background, to_paint)

\* WebRenderer.get_frame: a copy of the pixel array
get_frame(pixels) == pixels

\* save_static_frame_data without its first statement: the old static image
\* is still in place when the new one is composed
save_static_over_old_image(subs, z, active, fg, static, pixels, static_mobjects) ==
  IF static_mobjects = <<>>
  THEN [static_image |-> NoImage, pixel_array |-> pixels, result |-> NoImage]
  ELSE LET frame == update_frame_pixels(subs, z, active, fg, static, static_mobjects)
       IN [static_image |-> [present |-> TRUE, image |-> get_frame(frame)],
           pixel_array |-> frame,
           result |-> [present |-> TRUE, image |-> get_frame(frame)]]

\* WebRenderer.save_static_frame_data: the renderer after the call and what
\* the call returns
save_static_frame(subs, z, active, fg, static, pixels, static_mobjects) ==
  IF static_mobjects = <<>>
  THEN [static_image |-> NoImage, pixel_array |-> pixels, result |-> NoImage]
  ELSE LET frame == update_frame_pixels(subs, z, active, fg, NoImage, static_mobjects)
       IN [static_image |-> [present |-> TRUE, image |-> get_frame(frame)],
           pixel_array |-> frame,
           result |-> [present |-> TRUE, image |-> get_frame(frame)]]

\* the try statement of Scene.render with no except clause for
\* EndSceneEarlyException: the exception leaves render
render_uncaught_end_scene(signal) ==
  CASE signal = "returned" -> "tear_down"
    [] signal = "EndSceneEarlyException" -> "raised"
    [] signal = "RerunSceneException" -> "rerun"

\* the try statement of Scene.render: where render goes on when construct has
\* ended with the signal
render_after_construct(signal) ==
  CASE signal = "returned" -> "tear_down"
    [] signal = "EndSceneEarlyException" -> "tear_down"
    [] signal = "RerunSceneException" -> "rerun"

\* what RerunSceneHandler.on_modified puts on the queue
RerunRequest == <<"rerun_file", <<>>, <<>>>>

\* a handler that puts its request twice
queue_put_twice(q) == q \o <<RerunRequest, RerunRequest>>

\* RerunSceneHandler.on_modified: the queue after the call
queue_put(q) == Append(q, RerunRequest)

\* the mobjects on screen: the families of both scene lists
SceneFamily(subs, active, fg) == FamilySet(subs, active \o fg)

\* m is a proper descendant of some entry of list
NestedIn(subs, list, m) ==
  \E i \in 1..Len(list) : m # list[i] /\ m \in Range(get_family(subs, list[i]))

\* the record of a call: its name, its arguments, what it returned or raised,
\* and whether its first argument was nested under an entry of the active
\* list when the call was made
Call(op, args, result) ==
  [op |-> op, args |-> args, result |-> result,
   nested |-> args # <<>> /\ NestedIn(submobjects, mobjects, args[1])]

\* ------------------------------------------------------------------------
\* Actions
\* ------------------------------------------------------------------------

\* Scene.__init__, with mobjects that carry no updater and the default z_index
Init ==
  /\ mobjects = <<>>
  /\ foreground_mobjects = <<>>
  /\ moving_mobjects = <<>>
  /\ submobjects = InitSubmobjects
  /\ updaters = {}
  /\ z_index = [m \in Mob |-> 0]
  /\ num_replaced = 0
  /\ static_image = NoImage
  /\ pixel_array = <<>>
  /\ pc = "start"
  /\ hooks = <<>>
  /\ outcome = "none"
  /\ at_signal = <<<<>>, <<>>>>
  /\ queue = <<>>
  /\ pending = <<>>
  /\ restructuring = NotRestructuring
  /\ last_op = Call("init", <<>>, "ok")

add(args) ==
  /\ LET new == add_mobjects(submobjects, mobjects, foreground_mobjects, args)
     IN Len(new) <= MaxActive /\ mobjects' = new
  /\ moving_mobjects' = add_moving(submobjects, moving_mobjects, foreground_mobjects, args)
  /\ last_op' = Call("add", args, "ok")
  /\ UNCHANGED <<foreground_mobjects, submobjects, num_replaced, attrs, renderer, render_state,
                 watch_state>>

remove(args) ==
  /\ mobjects' = remove_from(submobjects, mobjects, args)
  /\ foreground_mobjects' = remove_from(submobjects, foreground_mobjects, args)
  /\ last_op' = Call("remove", args, "ok")
  /\ UNCHANGED <<moving_mobjects, submobjects, num_replaced, attrs, renderer, render_state,
                 watch_state>>

add_foreground_mobjects(args) ==
  LET fg == list_update(foreground_mobjects, args)
  IN /\ Len(fg) <= MaxForeground
     /\ foreground_mobjects' = fg
     /\ LET new == add_mobjects(submobjects, mobjects, fg, args)
        IN Len(new) <= MaxActive /\ mobjects' = new
     /\ moving_mobjects' = add_moving(submobjects, moving_mobjects, fg, args)
     /\ last_op' = Call("add_foreground_mobjects", args, "ok")
     /\ UNCHANGED <<submobjects, num_replaced, attrs, renderer, render_state,
                 watch_state>>

remove_foreground_mobjects(args) ==
  /\ foreground_mobjects' = restructure_mobjects(submobjects, foreground_mobjects, args, TRUE)
  /\ last_op' = Call("remove_foreground_mobjects", args, "ok")
  /\ UNCHANGED <<mobjects, moving_mobjects, submobjects, num_replaced, attrs, renderer, render_state,
                 watch_state>>

bring_to_front(args) ==
  /\ LET new == add_mobjects(submobjects, mobjects, foreground_mobjects, args)
     IN Len(new) <= MaxActive /\ mobjects' = new
  /\ moving_mobjects' = add_moving(submobjects, moving_mobjects, foreground_mobjects, args)
  /\ last_op' = Call("bring_to_front", args, "ok")
  /\ UNCHANGED <<foreground_mobjects, submobjects, num_replaced, attrs, renderer, render_state,
                 watch_state>>

bring_to_back(args) ==
  /\ LET new == bring_to_back_mobjects(submobjects, mobjects, args)
     IN Len(new) <= MaxActive /\ mobjects' = new
  /\ foreground_mobjects' = remove_from(submobjects, foreground_mobjects, args)
  /\ last_op' = Call("bring_to_back", args, "ok")
  /\ UNCHANGED <<moving_mobjects, submobjects, num_replaced, attrs, renderer, render_state,
                 watch_state>>

clear ==
  /\ mobjects' = <<>>
  /\ foreground_mobjects' = <<>>
  /\ last_op' = Call("clear", <<>>, "ok")
  /\ UNCHANGED <<moving_mobjects, submobjects, num_replaced, attrs, renderer, render_state,
                 watch_state>>

\* get_top_level_mobjects(): changes nothing, returns the list
get_top_level_mobjects ==
  /\ last_op' = Call("get_top_level_mobjects", <<>>,
                     top_level_mobjects(submobjects, mobjects))
  /\ UNCHANGED <<mobjects, foreground_mobjects, moving_mobjects, submobjects,
                 num_replaced, attrs, renderer, render_state,
                 watch_state>>

\* what the docstring of replace asks of a call: new_mobject "must not already
\* be in the scene", here neither itself nor any of its descendants, so that
\* the child lists stay free of cycles
ReplacePrecondition(subs, active, fg, new_mobject) ==
  Range(get_family(subs, new_mobject)) \cap SceneFamily(subs, active, fg) = {}

\* replace(old, new): a call that raises leaves last_op.result = "ValueError"
replace(old_mobject, new_mobject) ==
  LET r == replace_scene(submobjects, mobjects, foreground_mobjects,
                         old_mobject, new_mobject)
  IN /\ r.result = "ok" =>
          /\ num_replaced < MaxReplace
          /\ ReplacePrecondition(submobjects, mobjects, foreground_mobjects, new_mobject)
     /\ mobjects' = r.mobjects
     /\ foreground_mobjects' = r.foreground_mobjects
     /\ submobjects' = r.submobjects
     /\ num_replaced' = IF r.result = "ok" THEN num_replaced + 1 ELSE num_replaced
     /\ last_op' = Call("replace", <<old_mobject, new_mobject>>, r.result)
     /\ UNCHANGED <<moving_mobjects, attrs, renderer, render_state,
                 watch_state>>

\* ------------------------------------------------------------------------
\* Spec: the scene under the operations that leave child lists alone
\* ------------------------------------------------------------------------

Next ==
  \/ \E args \in ArgLists : add(args)
  \/ \E args \in ArgLists : remove(args)
  \/ \E args \in ForegroundArgLists : add_foreground_mobjects(args)
  \/ \E args \in ForegroundArgLists : remove_foreground_mobjects(args)
  \/ \E m \in Mob : bring_to_front(<<m>>)
  \/ \E args \in ArgLists : bring_to_back(args)
  \/ clear
  \/ get_top_level_mobjects

Spec == Init /\ [][Next]_vars

\* ------------------------------------------------------------------------
\* SpecReplace: the scene under add, remove (of m1 or G), add_foreground_mobjects and
\* replace, every call with a single mobject
\* ------------------------------------------------------------------------

NextReplace ==
  \/ \E m \in Mob : add(<<m>>)
  \/ \E m \in MultiArgMob : remove(<<m>>)
  \/ \E m \in ForegroundMob : add_foreground_mobjects(<<m>>)
  \/ \E old_mobject \in OldMob, new_mobject \in NewMob :
       replace(old_mobject, new_mobject)

SpecReplace == Init /\ [][NextReplace]_vars

\* ------------------------------------------------------------------------
\* SpecSearch: the scene that holds one leaf below two groups, under add,
\* remove and replace
\* ------------------------------------------------------------------------

InitSearch ==
  /\ mobjects = <<>>
  /\ foreground_mobjects = <<>>
  /\ moving_mobjects = <<>>
  /\ submobjects = SearchSubmobjects
  /\ updaters = {}
  /\ z_index = [m \in SearchMob |-> 0]
  /\ num_replaced = 0
  /\ static_image = NoImage
  /\ pixel_array = <<>>
  /\ pc = "start"
  /\ hooks = <<>>
  /\ outcome = "none"
  /\ at_signal = <<<<>>, <<>>>>
  /\ queue = <<>>
  /\ pending = <<>>
  /\ restructuring = NotRestructuring
  /\ last_op = [op |-> "init", args |-> <<>>, result |-> "ok", nested |-> FALSE]

NextSearch ==
  \/ \E args \in SearchArgLists : add(args)
  \/ \E m \in {"m1", "K"} : remove(<<m>>)
  \/ \E old_mobject \in {"m1", "G"} : replace(old_mobject, "m4")

SpecSearch == InitSearch /\ [][NextSearch]_vars

\* ------------------------------------------------------------------------
\* SpecRestructure: restructure_mobjects taken statement by statement, on
\* the scenes that add and add_foreground_mobjects build
\* ------------------------------------------------------------------------

\* the attribute of the scene that refers to the list object handed over
\* holds what that object holds
attribute_of(name, list, current) ==
  IF restructuring.name = name /\ restructuring.pc \in {"examine", "commit"}
  THEN list ELSE current

restructure_call(to_remove, name, extract_families) ==
  /\ restructuring.pc = "idle"
  /\ restructuring' = restructure_entered(submobjects, mobjects, foreground_mobjects,
                                          to_remove, name, extract_families)
  /\ last_op' = Call("restructure_mobjects", to_remove, "called")
  /\ UNCHANGED <<mobjects, foreground_mobjects, moving_mobjects, submobjects,
                 num_replaced, attrs, renderer, render_state, queue, pending>>

restructure_examine ==
  /\ restructuring.pc = "examine"
  /\ LET e == examined(submobjects, restructuring)
     IN /\ restructuring' = e.call
        /\ submobjects' = e.submobjects
        /\ mobjects' = attribute_of("mobjects", e.call.arg_list, mobjects)
        /\ foreground_mobjects' =
             attribute_of("foreground_mobjects", e.call.arg_list, foreground_mobjects)
  /\ UNCHANGED <<moving_mobjects, num_replaced, attrs, renderer, render_state,
                 queue, pending, last_op>>

\* setattr(self, mobject_list_name, new_list)
restructure_commit ==
  /\ restructuring.pc = "commit"
  /\ mobjects' = IF restructuring.name = "mobjects"
                 THEN restructuring.new_mobjects ELSE mobjects
  /\ foreground_mobjects' = IF restructuring.name = "foreground_mobjects"
                            THEN restructuring.new_mobjects ELSE foreground_mobjects
  /\ restructuring' = [restructuring EXCEPT !.pc = "done"]
  /\ last_op' = Call("restructure_mobjects", last_op.args, "ok")
  /\ UNCHANGED <<moving_mobjects, submobjects, num_replaced, attrs, renderer,
                 render_state, queue, pending>>

\* return self
restructure_return ==
  /\ restructuring.pc = "done"
  /\ restructuring' = NotRestructuring
  /\ UNCHANGED <<mobjects, foreground_mobjects, moving_mobjects, submobjects,
                 num_replaced, attrs, renderer, render_state, queue, pending, last_op>>

\* the argument lists of add on the scene that is restructured: every
\* single mobject, and G together with one of its leaves
RestructureArgLists == {<<m>> : m \in Mob} \cup {<<"G", "m1">>, <<"m1", "G">>}

NextRestructure ==
  \/ restructuring.pc = "idle" /\ \E args \in RestructureArgLists : add(args)
  \/ restructuring.pc = "idle" /\ add_foreground_mobjects(<<"G">>)
  \/ \E m \in MultiArgMob \cup {"m2"},
        name \in {"mobjects", "foreground_mobjects"}, extract_families \in BOOLEAN :
       restructure_call(<<m>>, name, extract_families)
  \/ restructure_examine
  \/ restructure_commit
  \/ restructure_return

SpecRestructure == Init /\ [][NextRestructure]_vars

\* ------------------------------------------------------------------------
\* SpecPartition: mobjects with updaters and z_index; the scene under add,
\* add_foreground_mobjects and bring_to_back with single mobjects,
\* add_mobjects_from_animations and get_moving_and_static_mobjects
\* ------------------------------------------------------------------------

InitPartition ==
  /\ mobjects = <<>>
  /\ foreground_mobjects = <<>>
  /\ moving_mobjects = <<>>
  /\ submobjects = InitSubmobjects
  /\ updaters \in UpdaterSets
  /\ z_index \in ZIndexMaps
  /\ num_replaced = 0
  /\ static_image = NoImage
  /\ pixel_array = <<>>
  /\ pc = "start"
  /\ hooks = <<>>
  /\ outcome = "none"
  /\ at_signal = <<<<>>, <<>>>>
  /\ queue = <<>>
  /\ pending = <<>>
  /\ restructuring = NotRestructuring
  /\ last_op = Call("init", <<>>, "ok")

\* get_moving_and_static_mobjects(animations): changes nothing, returns the pair
partition(animations) ==
  /\ last_op' =
       [op |-> "get_moving_and_static_mobjects", args |-> animations,
        result |-> get_moving_and_static_mobjects(
                     submobjects, z_index, mobjects, foreground_mobjects,
                     updaters, animations),
        nested |-> FALSE]
  /\ UNCHANGED <<mobjects, foreground_mobjects, moving_mobjects, submobjects,
                 num_replaced, attrs, renderer, render_state,
                 watch_state>>

\* add_mobjects_from_animations(animations)
add_mobjects_from_animations(animations) ==
  LET r == add_from_animations(
             submobjects, mobjects, moving_mobjects, foreground_mobjects,
             get_mobject_family_members(submobjects, z_index, mobjects), animations)
  IN /\ Len(r.mobjects) <= MaxActive
     /\ mobjects' = r.mobjects
     /\ moving_mobjects' = r.moving_mobjects
     /\ last_op' = [op |-> "add_mobjects_from_animations", args |-> animations,
                    result |-> "ok", nested |-> FALSE]
     /\ UNCHANGED <<foreground_mobjects, submobjects, num_replaced, attrs, renderer, render_state,
                 watch_state>>

NextPartition ==
  \/ \E m \in Mob : add(<<m>>)
  \/ \E animations \in AnimationBatches : add_mobjects_from_animations(animations)
  \/ add_foreground_mobjects(<<"m4">>)
  \/ \E m \in MultiArgMob : bring_to_back(<<m>>)
  \/ \E animations \in AnimationBatches : partition(animations)

SpecPartition == InitPartition /\ [][NextPartition]_vars

\* ------------------------------------------------------------------------
\* SpecRender: the scene under add (of m1, m2 or G), remove (of m1 or G) and
\* clear, and the renderer under update_frame and
\* save_static_frame_data
\* ------------------------------------------------------------------------

\* WebRenderer.update_frame(scene, mobjects)
update_frame(ms) ==
  /\ pixel_array' = update_frame_pixels(submobjects, z_index, mobjects,
                                        foreground_mobjects, static_image, ms)
  /\ last_op' = [op |-> "update_frame", args |-> ms, result |-> "ok",
                 nested |-> FALSE]
  /\ UNCHANGED <<mobjects, foreground_mobjects, moving_mobjects, submobjects,
                 num_replaced, attrs, static_image, render_state,
                 watch_state>>

\* WebRenderer.save_static_frame_data(scene, static_mobjects); the record of
\* the call keeps the static image the call found
save_static_frame_data(static_mobjects) ==
  LET r == save_static_frame(submobjects, z_index, mobjects, foreground_mobjects,
                             static_image, pixel_array, static_mobjects)
  IN /\ static_image' = r.static_image
     /\ pixel_array' = r.pixel_array
     /\ last_op' = [op |-> "save_static_frame_data", args |-> static_mobjects,
                    result |-> r.result, nested |-> FALSE, found |-> static_image]
     /\ UNCHANGED <<mobjects, foreground_mobjects, moving_mobjects, submobjects,
                    num_replaced, attrs, render_state,
                 watch_state>>

NextRender ==
  \/ \E m \in RenderMob : add(<<m>>)
  \/ \E m \in MultiArgMob : remove(<<m>>)
  \/ clear
  \/ \E ms \in FrameLists : update_frame(ms)
  \/ \E static_mobjects \in FrameLists : save_static_frame_data(static_mobjects)

SpecRender == Init /\ [][NextRender]_vars

\* ------------------------------------------------------------------------
\* SpecCache: the scene under add, remove and clear, and a caller that
\* renders it as the split prescribes: the static image is saved from the
\* static mobjects of the scene, the frame updated with the moving ones
\* ------------------------------------------------------------------------

\* the split of the scene for an empty batch of animations
split_of_scene ==
  get_moving_and_static_mobjects(submobjects, z_index, mobjects,
                                 foreground_mobjects, updaters, <<>>)

NextCache ==
  \/ \E m \in RenderMob : add(<<m>>)
  \/ \E m \in MultiArgMob : remove(<<m>>)
  \/ clear
  \/ save_static_frame_data(split_of_scene.static)
  \/ update_frame(split_of_scene.moving)

SpecCache == Init /\ [][NextCache]_vars

\* ------------------------------------------------------------------------
\* SpecRun: Scene.render: setup, then construct, in which the scene
\* operations run, then what follows the way construct ends
\* ------------------------------------------------------------------------

\* render up to the entry of construct
render_setup ==
  /\ pc = "start"
  /\ pc' = "construct"
  /\ hooks' = <<"setup", "construct">>
  /\ last_op' = Call("render", <<>>, "ok")
  /\ UNCHANGED <<mobjects, foreground_mobjects, moving_mobjects, submobjects,
                 num_replaced, attrs, renderer, outcome, at_signal,
                 watch_state>>

\* a scene operation called by construct
construct_step ==
  /\ pc = "construct"
  /\ \/ \E m \in RenderMob : add(<<m>>)
     \/ \E m \in MultiArgMob : remove(<<m>>)
     \/ add_foreground_mobjects(<<"m4">>)

\* construct returns, or an exception leaves it
construct_ends(signal) ==
  /\ pc = "construct"
  /\ pc' = render_after_construct(signal)
  /\ outcome' = signal
  /\ at_signal' = <<mobjects, foreground_mobjects>>
  /\ last_op' = Call("construct", <<>>, signal)
  /\ UNCHANGED <<mobjects, foreground_mobjects, moving_mobjects, submobjects,
                 num_replaced, attrs, renderer, hooks,
                 watch_state>>

\* whether the renderer of the scene has a method clear_screen: the class
\* WebRenderer, the only renderer there is, defines none
renderer_has_clear_screen == FALSE

\* the except clause of RerunSceneException: remove(*self.mobjects), then
\* self.renderer.clear_screen(); without such a method the attribute lookup
\* raises and render ends there, else render goes on to return True
render_rerun ==
  /\ pc = "rerun"
  /\ mobjects' = remove_from(submobjects, mobjects, mobjects)
  /\ foreground_mobjects' = remove_from(submobjects, foreground_mobjects, mobjects)
  /\ pc' = IF renderer_has_clear_screen THEN "returned_true" ELSE "raised"
  /\ last_op' = Call("clear_screen", <<>>,
                     IF renderer_has_clear_screen THEN "ok" ELSE "AttributeError")
  /\ UNCHANGED <<moving_mobjects, submobjects, num_replaced, attrs, renderer,
                 hooks, outcome, at_signal,
                 watch_state>>

\* tear_down, and open_file when render was called with preview
render_tear_down(preview) ==
  /\ pc = "tear_down"
  /\ pc' = "done"
  /\ hooks' = hooks \o <<"tear_down">> \o (IF preview THEN <<"open_file">> ELSE <<>>)
  /\ last_op' = Call("tear_down", <<>>, "ok")
  /\ UNCHANGED <<mobjects, foreground_mobjects, moving_mobjects, submobjects,
                 num_replaced, attrs, renderer, outcome, at_signal,
                 watch_state>>

NextRun ==
  \/ render_setup
  \/ construct_step
  \/ \E signal \in Signals : construct_ends(signal)
  \/ render_rerun
  \/ \E preview \in BOOLEAN : render_tear_down(preview)

SpecRun == Init /\ [][NextRun]_vars

\* ------------------------------------------------------------------------
\* SpecWatch: the scene under add, taken statement by statement, and remove,
\* with the file watcher's thread delivering events at any point
\* ------------------------------------------------------------------------

\* Scene.add up to and including self.restructure_mobjects(to_remove=mobjects)
add_restructure(args) ==
  /\ pending = <<>>
  /\ Len(add_mobjects(submobjects, mobjects, foreground_mobjects, args)) <= MaxActive
  /\ pending' = args \o foreground_mobjects
  /\ mobjects' = restructure_mobjects(submobjects, mobjects,
                                      args \o foreground_mobjects, TRUE)
  /\ last_op' = Call("add", args, "restructured")
  /\ UNCHANGED <<foreground_mobjects, moving_mobjects, submobjects, num_replaced,
                 attrs, renderer, render_state, queue, restructuring>>

\* Scene.add from self.mobjects += mobjects on
add_append ==
  /\ pending # <<>>
  /\ mobjects' = mobjects \o pending
  /\ moving_mobjects' =
       IF moving_mobjects # <<>>
       THEN restructure_mobjects(submobjects, moving_mobjects, pending, TRUE)
              \o pending
       ELSE moving_mobjects
  /\ pending' = <<>>
  /\ last_op' = Call("add", pending, "ok")
  /\ UNCHANGED <<foreground_mobjects, submobjects, num_replaced, attrs, renderer,
                 render_state, queue, restructuring>>

\* RerunSceneHandler.on_modified(event), on the watcher's thread
on_modified ==
  /\ Len(queue) < MaxQueue
  /\ queue' = queue_put(queue)
  /\ UNCHANGED <<mobjects, foreground_mobjects, moving_mobjects, submobjects,
                 num_replaced, attrs, renderer, render_state, pending,
                 restructuring, last_op>>

NextWatch ==
  \/ \E m \in Mob : add_restructure(<<m>>)
  \/ add_append
  \/ pending = <<>> /\ \E m \in MultiArgMob : remove(<<m>>)
  \/ pending = <<>> /\ add_foreground_mobjects(<<"m4">>)
  \/ on_modified

SpecWatch == Init /\ [][NextWatch]_vars

\* ------------------------------------------------------------------------
\* Claims about add
\* ------------------------------------------------------------------------

\* the active list after one more add(m) in the current state
AddAgain(m) == add_mobjects(submobjects, mobjects, foreground_mobjects, <<m>>)

AfterAddOf1 == last_op.op = "add" /\ Len(last_op.args) = 1

\* C1, as stated: in every reachable state, foreground empty or not, add(m)
\* followed by add(m) leaves m exactly once in the active list, and that
\* occurrence is the last entry.
C1_TwiceAddedOnceAndLast ==
  AfterAddOf1 =>
    LET m == last_op.args[1]
        twice == AddAgain(m)
    IN Count(m, twice) = 1 /\ twice[Len(twice)] = m

\* C1, amended: add(m) followed by add(m) gives the active list of a single
\* add(m); that list ends with m followed by the foreground list, so m occurs
\* in it once plus once per occurrence of m in the foreground list, and m is
\* the last entry when the foreground list is empty.
C1_TwiceAddedBeforeForeground ==
  AfterAddOf1 =>
    LET m == last_op.args[1]
        twice == AddAgain(m)
    IN /\ twice = mobjects
       /\ IsSuffix(<<m>> \o foreground_mobjects, twice)
       /\ Count(m, twice) = 1 + Count(m, foreground_mobjects)
       /\ foreground_mobjects = <<>> => twice[Len(twice)] = m

\* add(m) has run on a scene with a foreground mobject other than m and with
\* a further entry below m
C1_Witness ==
  /\ AfterAddOf1
  /\ foreground_mobjects # <<>>
  /\ last_op.args[1] \notin Range(foreground_mobjects)
  /\ Len(mobjects) > 1 + Len(foreground_mobjects)

\* C2: in every state reached by add, add_foreground_mobjects and remove
\* (and by the other operations of Spec), every mobject of the foreground list
\* is an entry of the active list.
C2_ForegroundInActive == Range(foreground_mobjects) \subseteq Range(mobjects)

\* remove has dissolved a group of the foreground list into its survivors
C2_Witness ==
  /\ last_op.op = "remove"
  /\ Len(foreground_mobjects) = 2
  /\ Len(mobjects) = 3

\* C9: right after add, bring_to_front and add_foreground_mobjects (which
\* ends with add), the foreground list is a suffix of the active list, in the
\* same order.
C9_ForegroundSuffixAfterAdd ==
  last_op.op \in {"add", "bring_to_front", "add_foreground_mobjects"} =>
    IsSuffix(foreground_mobjects, mobjects)

\* bring_to_front has run with a foreground list and a mobject outside it
C9_Witness ==
  /\ last_op.op = "bring_to_front"
  /\ foreground_mobjects # <<>>
  /\ \E i \in 1..Len(mobjects) : mobjects[i] \notin Range(foreground_mobjects)

\* ------------------------------------------------------------------------
\* Claims about restructuring, remove and bring_to_back
\* ------------------------------------------------------------------------

\* the active list is [Group(m1, m2, m3)]
OnlyGroupOfThree ==
  mobjects = <<"G">> /\ submobjects["G"] = <<"m1", "m2", "m3">>

\* C3, as stated: restructuring [Group(m1,m2,m3)] against {m2} with
\* extract_families = true yields a list whose single entry is the same
\* group (with children m1, m3).
C3_GroupKeptInPlace ==
  OnlyGroupOfThree =>
    restructure_mobjects(submobjects, mobjects, <<"m2">>, TRUE) = <<"G">>

\* C3, amended: restructuring [Group(m1,m2,m3)] against {m2} with
\* extract_families = true yields [m1, m3]: the group is dissolved and its
\* remaining children take its place as entries, in their order; the child
\* list of the group is not rewritten.
C3_GroupDissolved ==
  OnlyGroupOfThree =>
    restructure_mobjects(submobjects, mobjects, <<"m2">>, TRUE) = <<"m1", "m3">>

\* the scene holds exactly the group of three, put there by add
C3_Witness == OnlyGroupOfThree /\ last_op.op = "add" /\ last_op.args = <<"G">>

\* C4: when an entry of the active list is a group and one of its children is
\* removed, restructure_mobjects takes the group out of the list and puts the
\* other children, in their order, where the group was; the entries kept
\* whole keep their relative order.
C4_GroupDissolvedInPlace ==
  \A i \in 1..Len(mobjects) :
    \A k \in 1..Len(submobjects[mobjects[i]]) :
      LET g == mobjects[i]
          c == submobjects[g][k]
          removed == FamilySet(submobjects, <<c>>)
          res == restructure_mobjects(submobjects, mobjects, <<c>>, TRUE)
          before == restructure_mobjects(submobjects, SubSeq(mobjects, 1, i - 1),
                                         <<c>>, TRUE)
          after == restructure_mobjects(submobjects,
                                        SubSeq(mobjects, i + 1, Len(mobjects)),
                                        <<c>>, TRUE)
          whole(e) == removed \cap Range(get_family(submobjects, e)) = {}
      IN /\ g \notin Range(res)
         /\ res = before \o WithoutIndex(submobjects[g], k) \o after
         /\ IsSubsequence(SelectSeq(mobjects, whole), res)

\* the group G stands between two other entries of the active list, neither
\* of them in the family of G
C4_Witness ==
  /\ Len(mobjects) = 3
  /\ mobjects[2] = "G"
  /\ mobjects[1] \notin Range(get_family(submobjects, "G"))
  /\ mobjects[3] \notin Range(get_family(submobjects, "G"))

\* C5, as stated: after remove(G) no mobject of the family of G is an entry
\* of, or nested under an entry of, the active list or the foreground list.
C5_RemoveTakesFamily ==
  (last_op.op = "remove" /\ Len(last_op.args) = 1) =>
    FamilySet(submobjects, last_op.args)
      \cap SceneFamily(submobjects, mobjects, foreground_mobjects) = {}

\* C5, amended: remove matches its arguments by identity, without family
\* expansion: after remove(G), G itself is neither an entry of nor nested
\* under an entry of the active list or the foreground list, and an entry
\* whose family does not hold G (a descendant of G that is a separate
\* top-level entry, for one) stays an entry.
C5_RemoveTakesMobjectOnly ==
  /\ last_op.op = "remove" =>
       Range(last_op.args)
         \cap SceneFamily(submobjects, mobjects, foreground_mobjects) = {}
  /\ \A g \in Mob : \A i \in 1..Len(mobjects) :
       g \notin Range(get_family(submobjects, mobjects[i])) =>
         mobjects[i] \in Range(remove_from(submobjects, mobjects, <<g>>))

\* remove(G) has run and a child of G is still an entry of the active list
C5_Witness ==
  /\ last_op.op = "remove"
  /\ last_op.args = <<"G">>
  /\ "m1" \in Range(mobjects)

\* C8: bring_to_back(m), for m nested under an entry of the active list,
\* leaves m at index 1 of the active list and nowhere else, neither as another
\* entry nor under one, and leaves the child list of m as it was.
C8_BroughtToBack ==
  (last_op.op = "bring_to_back" /\ Len(last_op.args) = 1 /\ last_op.nested) =>
    LET m == last_op.args[1]
    IN /\ mobjects # <<>> /\ mobjects[1] = m
       /\ \A i \in 2..Len(mobjects) :
            m \notin Range(get_family(submobjects, mobjects[i]))
       /\ \A i \in 1..Len(submobjects[m]) :
            m \notin Range(get_family(submobjects, submobjects[m][i]))
       /\ submobjects[m] = InitSubmobjects[m]

\* bring_to_back(G) has run on a scene that held G below H, next to another
\* entry
C8_Witness ==
  /\ last_op.op = "bring_to_back"
  /\ last_op.args = <<"G">>
  /\ last_op.nested
  /\ Len(mobjects) >= 2

\* ------------------------------------------------------------------------
\* Claims about replace (SpecReplace)
\* ------------------------------------------------------------------------

\* what replace(old, new) would do in the current state
ReplaceNow(old_mobject, new_mobject) ==
  replace_scene(submobjects, mobjects, foreground_mobjects, old_mobject, new_mobject)

\* the slots of the two scene lists and of every child list that hold
\* something else in r than in the current state
ChangedSlots(r) ==
  {<<"mobjects", i>> : i \in {j \in 1..Len(mobjects) : r.mobjects[j] # mobjects[j]}}
  \cup {<<"foreground_mobjects", i>> :
          i \in {j \in 1..Len(foreground_mobjects) :
                   r.foreground_mobjects[j] # foreground_mobjects[j]}}
  \cup UNION {{<<m, i>> : i \in {j \in 1..Len(submobjects[m]) :
                                   r.submobjects[m][j] # submobjects[m][j]}} :
              m \in Mob}

\* what slot holds in the current state, and in r
SlotNow(slot) ==
  CASE slot[1] = "mobjects" -> mobjects[slot[2]]
    [] slot[1] = "foreground_mobjects" -> foreground_mobjects[slot[2]]
    [] OTHER -> submobjects[slot[1]][slot[2]]

SlotIn(r, slot) ==
  CASE slot[1] = "mobjects" -> r.mobjects[slot[2]]
    [] slot[1] = "foreground_mobjects" -> r.foreground_mobjects[slot[2]]
    [] OTHER -> r.submobjects[slot[1]][slot[2]]

SameLengths(r) ==
  /\ Len(r.mobjects) = Len(mobjects)
  /\ Len(r.foreground_mobjects) = Len(foreground_mobjects)
  /\ \A m \in Mob : Len(r.submobjects[m]) = Len(submobjects[m])

\* C6: replace(old, new) raises exactly when old or new is None or old is in
\* the family of no entry of the active list and of no entry of the foreground
\* list; a call that raises leaves both lists and every child list as they
\* were.
C6_ReplaceRaisesExactlyWhenAbsent ==
  /\ \A old_mobject, new_mobject \in Mob \cup {None} :
       LET r == ReplaceNow(old_mobject, new_mobject)
       IN /\ r.result = "ValueError" <=>
               \/ old_mobject = None
               \/ new_mobject = None
               \/ old_mobject \notin
                    SceneFamily(submobjects, mobjects, foreground_mobjects)
          /\ r.result = "ValueError" =>
               /\ r.mobjects = mobjects
               /\ r.foreground_mobjects = foreground_mobjects
               /\ r.submobjects = submobjects
  /\ (last_op.op = "replace" /\ last_op.result = "ValueError") =>
       \/ None \in Range(last_op.args)
       \/ last_op.args[1] \notin
            SceneFamily(submobjects, mobjects, foreground_mobjects)

\* replace has raised for two mobjects, on a scene that is not empty
C6_Witness ==
  /\ last_op.op = "replace"
  /\ last_op.result = "ValueError"
  /\ None \notin Range(last_op.args)
  /\ mobjects # <<>>

\* every slot of the two scene lists and of the child lists
AllSlots ==
  {<<"mobjects", i>> : i \in 1..Len(mobjects)}
  \cup {<<"foreground_mobjects", i>> : i \in 1..Len(foreground_mobjects)}
  \cup UNION {{<<m, i>> : i \in 1..Len(submobjects[m])} : m \in Mob}

\* C7: a replace(old, new) that succeeds overwrites exactly one slot among
\* the active list, the foreground list and the child lists: the slot held
\* old and holds new afterwards; every list keeps its length and every other
\* slot its mobject.
C7_ReplaceChangesOneSlot ==
  \A old_mobject, new_mobject \in Mob :
    LET r == ReplaceNow(old_mobject, new_mobject)
    IN r.result = "ok" =>
         /\ SameLengths(r)
         /\ \E slot \in AllSlots :
              /\ SlotNow(slot) = old_mobject
              /\ SlotIn(r, slot) = new_mobject
              /\ ChangedSlots(r) \subseteq {slot}
         /\ old_mobject # new_mobject => Cardinality(ChangedSlots(r)) = 1

\* replace(m1, m4) has succeeded two levels below the entry H: G holds m4 in
\* the place of m1, next to m2 and m3
C7_Witness ==
  /\ last_op.op = "replace"
  /\ last_op.result = "ok"
  /\ last_op.args = <<"m1", "m4">>
  /\ "H" \in Range(mobjects)
  /\ submobjects["H"] = <<"G">>
  /\ submobjects["G"] = <<"m4", "m2", "m3">>

\* ------------------------------------------------------------------------
\* Claims about the moving/static split (SpecPartition)
\* ------------------------------------------------------------------------

AfterPartition == last_op.op = "get_moving_and_static_mobjects"

\* the flattened family sequence of the scene (the call changes nothing, so
\* it is the sequence the call has scanned)
FamilySequence == get_mobject_family_members(submobjects, z_index, mobjects)

\* the index in FamilySequence of the first dynamic member for the batch of
\* the last call
SplitIndex ==
  FirstDynamic(submobjects, foreground_mobjects, updaters, last_op.args,
               FamilySequence)

\* C10, as stated: moving is exactly the members of the flattened family
\* sequence from its first dynamic member to the end and static exactly the
\* members before it, both in sequence order; with no dynamic member moving
\* is empty and static the entire sequence.
C10_SplitAtFirstDynamic ==
  AfterPartition =>
    IF SplitIndex = 0
    THEN last_op.result.moving = <<>> /\ last_op.result.static = FamilySequence
    ELSE /\ last_op.result.moving =
              SubSeq(FamilySequence, SplitIndex, Len(FamilySequence))
         /\ last_op.result.static = SubSeq(FamilySequence, 1, SplitIndex - 1)

\* C10, amended: moving is the members of the flattened family sequence from
\* its first dynamic member to the end together with their descendants (a
\* descendant of lower z_index stands before that index), in sequence order,
\* and is exactly that tail when all z_index are equal; static is the members
\* with points that are not in moving, in sequence order; with no dynamic
\* member moving is empty and static is every member with points.
C10_SplitAtFirstDynamicWithPoints ==
  AfterPartition =>
    LET F == FamilySequence
        i == SplitIndex
        tail == SubSeq(F, i, Len(F))
        closure == FamilySet(submobjects, tail)
        moving == last_op.result.moving
        static == last_op.result.static
    IN IF i = 0
       THEN moving = <<>> /\ static = SelectSeq(F, has_points)
       ELSE /\ moving = SelectSeq(F, LAMBDA e : e \in closure)
            /\ (\A m \in Mob : z_index[m] = 0) => moving = tail
            /\ static = SelectSeq(F, LAMBDA e : has_points(e) /\ e \notin closure)

\* the split has been taken of [m1, m2, m3] with an updater on m2 alone:
\* moving = [m2, m3], static = [m1]
C10_Witness ==
  /\ AfterPartition
  /\ last_op.args = <<>>
  /\ updaters = {"m2"}
  /\ mobjects = <<"m1", "m2", "m3">>
  /\ last_op.result = [moving |-> <<"m2", "m3">>, static |-> <<"m1">>]

\* the three reasons the spec gives for a member to be dynamic, the second
\* one read as "mob itself carries an updater"
DynamicByOwnUpdaters(animations, mob) ==
  \/ \E i \in 1..Len(animations) : animations[i].mobject = mob
  \/ mob \in updaters
  \/ mob \in Range(foreground_mobjects)

\* the same with the second reason read as "mob or one of its descendants
\* carries an updater"
DynamicByFamilyUpdaters(animations, mob) ==
  \/ \E i \in 1..Len(animations) : animations[i].mobject = mob
  \/ \E d \in Range(get_family(submobjects, mob)) : d \in updaters
  \/ mob \in Range(foreground_mobjects)

AddedFromAnimations(animations) ==
  add_from_animations(
    submobjects, mobjects, moving_mobjects, foreground_mobjects,
    get_mobject_family_members(submobjects, z_index, mobjects), animations).mobjects

AfterAddFromAnimations == last_op.op = "add_mobjects_from_animations"

NotIntroducer(animation) == ~animation.is_introducer

SplitNow(animations) ==
  get_moving_and_static_mobjects(submobjects, z_index, mobjects,
                                 foreground_mobjects, updaters, animations)

\* entry i of the batch is an introducer whose mobject is a member of the
\* family sequence with no other reason to be dynamic: no updater in its
\* family, not in the foreground, not the mobject of a non-introducer entry
OnlyAnIntroducerTarget(animations, i) ==
  LET mob == animations[i].mobject
  IN /\ animations[i].is_introducer
     /\ mob \in Range(FamilySequence)
     /\ ~has_family_updaters(submobjects, updaters, mob)
     /\ mob \notin Range(foreground_mobjects)
     /\ \A j \in 1..Len(animations) :
          NotIntroducer(animations[j]) => animations[j].mobject # mob

\* C13, as stated: an introducer entry does not make its mobject dynamic;
\* when being the mobject of an introducer entry is the only candidate reason,
\* the split is that of the batch without the entry.
C13_IntroducerNotDynamic ==
  \A animations \in AnimationBatches : \A i \in 1..Len(animations) :
    OnlyAnIntroducerTarget(animations, i) =>
      SplitNow(animations) = SplitNow(WithoutIndex(animations, i))

\* the batch with every entry marked as no introducer
AsNonIntroducers(animations) ==
  [i \in 1..Len(animations) |-> Animation(animations[i].mobject, FALSE)]

\* C13, amended: get_moving_mobjects does not read is_introducer; the split
\* for a batch is the split for the same entries marked as non-introducers,
\* and the mobject of every entry, introducer or not, that is a member of the
\* family sequence is in moving.
C13_IntroducerFlagNotRead ==
  /\ \A animations \in AnimationBatches :
       SplitNow(animations) = SplitNow(AsNonIntroducers(animations))
  /\ AfterPartition =>
       \A i \in 1..Len(last_op.args) :
         last_op.args[i].mobject \in Range(FamilySequence) =>
           last_op.args[i].mobject \in Range(last_op.result.moving)

\* the split of [m1, m2, m3] has been taken for an introducer of m2, with no
\* updaters and no foreground: moving = [m2, m3], static = [m1]
C13_Witness ==
  /\ AfterPartition
  /\ last_op.args = <<Animation("m2", TRUE)>>
  /\ updaters = {}
  /\ foreground_mobjects = <<>>
  /\ mobjects = <<"m1", "m2", "m3">>
  /\ last_op.result.moving = <<"m2", "m3">>
  /\ last_op.result.static = <<"m1">>

\* ------------------------------------------------------------------------
\* Claims about the renderer (SpecRender, SpecCache)
\* ------------------------------------------------------------------------

\* the frame of one pass over a blank background that paints ms
Composite(ms) == capture_mobjects(submobjects, z_index, <<>>, ms)

AfterSave == last_op.op = "save_static_frame_data"

AfterUpdate == last_op.op = "update_frame"

\* C14: after save_static_frame_data(S) with S empty there is no static image
\* and the call has returned none; with S not empty the static image, and
\* what the call has returned, is the frame of the members of S painted in
\* order on a blank background, whatever static image the call found and
\* whatever the scene holds.
C14_StaticFrameOfMembers ==
  AfterSave =>
    IF last_op.args = <<>>
    THEN ~static_image.present /\ ~last_op.result.present
    ELSE /\ static_image = [present |-> TRUE, image |-> Composite(last_op.args)]
         /\ last_op.result = static_image
         /\ pixel_array = static_image.image

\* save_static_frame_data([m1, m2]) has run on a scene that holds other
\* mobjects and found a static image of other content
C14_Witness ==
  /\ AfterSave
  /\ last_op.args = <<"m1", "m2">>
  /\ last_op.found.present
  /\ last_op.found.image # <<"m1", "m2">>
  /\ mobjects = <<"G">>
  /\ static_image.image = <<"m1", "m2">>

\* C15, as stated: update_frame(members) starts from the static image when
\* there is one and from a blank background otherwise, and paints on it the
\* mobjects of members and no others, for the empty sequence too.
C15_PaintsMembersOnly ==
  AfterUpdate =>
    pixel_array =
      (IF static_image.present THEN static_image.image ELSE <<>>)
        \o extract_mobject_family_members(submobjects, z_index, last_op.args,
                                          use_z_index, TRUE)

\* C16, as stated: for all S and M with no mobject in common,
\* save_static_frame_data(S) followed by update_frame(M) leaves a frame, as
\* get_frame returns it, equal to one pass over a blank background that
\* paints the members of S and then those of M.
C16_TwoPassesAsOne ==
  \A S \in FrameLists : \A M \in FrameLists :
    FamilySet(submobjects, S) \cap FamilySet(submobjects, M) = {} =>
      LET saved == save_static_frame(submobjects, z_index, mobjects,
                                     foreground_mobjects, static_image,
                                     pixel_array, S)
      IN get_frame(update_frame_pixels(submobjects, z_index, mobjects,
                                       foreground_mobjects, saved.static_image, M))
           = Composite(S \o M)

\* C17, as stated: whenever there is a static image, it is the frame of the
\* current static mobjects of the scene, so that update_frame never starts
\* from an image of mobjects that have left the static set.
C17_StaticImageIsCurrent ==
  static_image.present => static_image.image = Composite(split_of_scene.static)

\* ------------------------------------------------------------------------
\* Claims about top-level membership (Spec)
\* ------------------------------------------------------------------------

\* C18, as stated: get_top_level_mobjects returns, in the order of the
\* active list, exactly the entries that are no descendant of another entry;
\* an entry that is nobody's descendant is returned also when the mobject
\* occurs more than once in the list.
C18_TopLevelAreNotNested ==
  last_op.op = "get_top_level_mobjects" =>
    last_op.result =
      SelectSeq(mobjects, LAMBDA m : ~NestedIn(submobjects, mobjects, m))

\* C19, as stated: in every state reached by add, remove, bring_to_front and
\* bring_to_back, no mobject is an entry of the active list and at the same
\* time a proper descendant of an entry of it; the same for the foreground
\* list.
C19_EntriesNotNested ==
  /\ \A i \in 1..Len(mobjects) : ~NestedIn(submobjects, mobjects, mobjects[i])
  /\ \A i \in 1..Len(foreground_mobjects) :
       ~NestedIn(submobjects, foreground_mobjects, foreground_mobjects[i])

\* ------------------------------------------------------------------------
\* Claims about render (SpecRun)
\* ------------------------------------------------------------------------

\* C20: when construct has ended with EndSceneEarlyException, render goes on
\* to tear_down and ends normally, having called setup, construct and
\* tear_down in that order, and the active and the foreground list stay what
\* the last scene operation of construct left.
C20_TearDownAfterEndSceneEarly ==
  outcome = "EndSceneEarlyException" =>
    /\ pc \in {"tear_down", "done"}
    /\ pc = "done" => SubSeq(hooks, 1, 3) = <<"setup", "construct", "tear_down">>
    /\ pc = "tear_down" => hooks = <<"setup", "construct">>
    /\ <<mobjects, foreground_mobjects>> = at_signal

\* render has ended after an EndSceneEarlyException that came when construct
\* had put mobjects in both lists
C20_Witness ==
  /\ outcome = "EndSceneEarlyException"
  /\ pc = "done"
  /\ "tear_down" \in Range(hooks)
  /\ foreground_mobjects # <<>>
  /\ Len(mobjects) >= 2

\* C21: when construct has ended with RerunSceneException and render has
\* handled it, the active and the foreground list are empty and render has
\* returned True.
C21_RerunClearsAndReturnsTrue ==
  (outcome = "RerunSceneException" /\ pc # "rerun") =>
    /\ mobjects = <<>>
    /\ foreground_mobjects = <<>>
    /\ pc = "returned_true"

\* ------------------------------------------------------------------------
\* Claims about the file watcher (SpecWatch)
\* ------------------------------------------------------------------------

\* C22: a step that changes the queue, taken at any point of the scene's
\* operations, puts exactly one rerun request at the end of the queue and
\* leaves the active list, the foreground list and every child list as they
\* are.
C22_OnModifiedOnlyEnqueues ==
  [][queue' # queue =>
       /\ queue' = Append(queue, RerunRequest)
       /\ UNCHANGED <<mobjects, foreground_mobjects, submobjects, pending>>]_vars

\* an event has been delivered between the two statements of an add that has
\* dissolved a group
C22_Witness ==
  /\ queue # <<>>
  /\ pending = <<"m1">>
  /\ mobjects = <<"m2", "m3">>

\* ------------------------------------------------------------------------
\* Claims about the search of replace (SpecSearch)
\* ------------------------------------------------------------------------

\* the mobjects d levels below list: its entries at depth 0, their children
\* at depth 1, and so on
RECURSIVE MobjectsAtDepth(_, _, _)
MobjectsAtDepth(subs, list, d) ==
  IF d = 0 THEN Range(list)
  ELSE UNION {Range(subs[g]) : g \in MobjectsAtDepth(subs, list, d - 1)}

\* the depths at which m occurs below list
DepthsOf(subs, list, m) ==
  {d \in 0..Cardinality(DOMAIN subs) : m \in MobjectsAtDepth(subs, list, d)}

\* the least depth at which m, a member of the family of list, occurs
MinDepth(subs, list, m) ==
  CHOOSE d \in DepthsOf(subs, list, m) : \A e \in DepthsOf(subs, list, m) : d <= e

\* the slots of the active list and of the child lists that hold something
\* else in r than in the current state, each with the least depth at which
\* it lies below the active list
ChangedDepths(r) ==
  {0 : i \in {j \in 1..Len(mobjects) : r.mobjects[j] # mobjects[j]}}
  \cup UNION {{MinDepth(submobjects, mobjects, g) + 1 :
                 i \in {j \in 1..Len(submobjects[g]) :
                          r.submobjects[g][j] # submobjects[g][j]}} :
              g \in FamilySet(submobjects, mobjects)}

\* C23: when old occurs below the active list, the slot replace(old, new)
\* overwrites is at the least depth at which old occurs below the active
\* list.
C23_ReplacedAtMinimalDepth ==
  \A old_mobject \in SearchMob :
    LET r == ReplaceNow(old_mobject, "m4")
    IN (/\ r.result = "ok"
        /\ old_mobject \in FamilySet(submobjects, mobjects)
        /\ ReplacePrecondition(submobjects, mobjects, foreground_mobjects, "m4")) =>
         ChangedDepths(r) = {MinDepth(submobjects, mobjects, old_mobject)}

\* ------------------------------------------------------------------------
\* Claims about the steps of restructure_mobjects (SpecRestructure)
\* ------------------------------------------------------------------------

\* the attribute the call in progress is to assign
NamedAttribute ==
  IF restructuring.name = "mobjects" THEN mobjects ELSE foreground_mobjects

\* the other one of the two attributes, now and when the call was made
OtherAttribute ==
  IF restructuring.name = "mobjects" THEN foreground_mobjects ELSE mobjects

OtherAttributeBefore ==
  IF restructuring.name = "mobjects" THEN restructuring.before.foreground_mobjects
  ELSE restructuring.before.mobjects

NamedAttributeBefore ==
  IF restructuring.name = "mobjects" THEN restructuring.before.mobjects
  ELSE restructuring.before.foreground_mobjects

\* C24: from the call of restructure_mobjects to its return, the list object
\* that was handed over and every child list hold what they held at the call;
\* the named attribute holds the old list until the final assignment and the
\* new list, the one get_restructured_mobject_list has built, after it.
C24_FreshListSingleAssignment ==
  restructuring.pc # "idle" =>
    /\ restructuring.arg_list = NamedAttributeBefore
    /\ submobjects = restructuring.before.submobjects
    /\ OtherAttribute = OtherAttributeBefore
    /\ restructuring.pc \in {"examine", "commit"} =>
         NamedAttribute = NamedAttributeBefore
    /\ restructuring.pc = "done" =>
         /\ NamedAttribute = restructuring.new_mobjects
         /\ NamedAttribute =
              get_restructured_mobject_list(restructuring.before.submobjects,
                                            NamedAttributeBefore,
                                            restructuring.set_to_remove)

\* a call has dissolved a group: the new list is assigned and differs from
\* the list that was handed over, which still holds the group
C24_Witness ==
  /\ restructuring.pc = "done"
  /\ restructuring.arg_list = <<"H">>
  /\ mobjects = <<"m2", "m3">>

\* ------------------------------------------------------------------------
\* Claims about the restructured list (SpecRestructure)
\* ------------------------------------------------------------------------

\* every entry of list has a family that holds no mobject of to_remove
FamiliesDisjointFrom(subs, list, to_remove) ==
  \A i \in 1..Len(list) : Range(get_family(subs, list[i])) \cap to_remove = {}

\* C25: for each of the two scene lists L the scene holds between two calls
\* of restructure_mobjects and every set R of mobjects, every
\* entry of get_restructured_mobject_list(L, R) has a family disjoint from R,
\* and restructuring the result against R again returns the same list; so
\* does the list a call of restructure_mobjects has assigned.
C25_ResultDisjointAndIdempotent ==
  /\ restructuring.pc = "idle" =>
     \A L \in {mobjects, foreground_mobjects}, R \in SUBSET Mob :
       LET new_list == get_restructured_mobject_list(submobjects, L, R)
       IN /\ FamiliesDisjointFrom(submobjects, new_list, R)
          /\ get_restructured_mobject_list(submobjects, new_list, R) = new_list
  /\ restructuring.pc = "done" =>
       FamiliesDisjointFrom(submobjects, NamedAttribute, restructuring.set_to_remove)

\* restructure_mobjects(m2) has dissolved H and G next to an entry that is
\* kept whole
C25_Witness ==
  /\ restructuring.pc = "done"
  /\ restructuring.set_to_remove = {"m2"}
  /\ restructuring.arg_list = <<"H", "m4">>
  /\ mobjects = <<"m1", "m3", "m4">>

\* ------------------------------------------------------------------------
\* Claims about replace and the foreground list (SpecReplace)
\* ------------------------------------------------------------------------

ActiveAfterRemove(m) == remove_from(submobjects, mobjects, <<m>>)

\* C27, as stated: every mobject of the family of the active list that is
\* not in the family of m, a group that contains m included, is in the
\* family of the active list after remove(m).
C27_RemoveTakesOnlyFamily ==
  \A m \in DOMAIN submobjects :
    \A x \in FamilySet(submobjects, mobjects) \ Range(get_family(submobjects, m)) :
      x \in FamilySet(submobjects, ActiveAfterRemove(m))

\* C27, amended: remove(m) takes out of the family of the active list m and
\* every group that contains m (such a group is dissolved into the members
\* that do not hold m); every mobject of the family that is not in the family
\* of m and does not contain m is in the family of the active list afterwards.
C27_RemoveDissolvesContainers ==
  /\ \A m \in DOMAIN submobjects :
       \A x \in FamilySet(submobjects, mobjects) :
         /\ m \in Range(get_family(submobjects, x)) =>
              x \notin FamilySet(submobjects, ActiveAfterRemove(m))
         /\ (/\ x \notin Range(get_family(submobjects, m))
             /\ m \notin Range(get_family(submobjects, x))) =>
              x \in FamilySet(submobjects, ActiveAfterRemove(m))
  /\ (last_op.op = "remove" /\ Len(last_op.args) = 1) =>
       \A x \in FamilySet(submobjects, mobjects) :
         last_op.args[1] \notin Range(get_family(submobjects, x))

\* remove(m1) has dissolved G next to another entry: the leaves m2 and m3
\* are entries and G is gone
C27_Witness ==
  /\ last_op.op = "remove"
  /\ last_op.args = <<"m1">>
  /\ last_op.nested
  /\ mobjects = <<"m4", "m2", "m3">>

====
